---- MODULE Spec2Model ----
(***************************************************************************)
(* Model of the streaming query-to-template bridge of go-net-http-tmpl:    *)
(*   db.go        dbhandler (statement cache, sql/sqls/sqlr, the row       *)
(*                producer goroutine) and ResultSet.Named                  *)
(*   unnamed/part_000   eq and Group                                       *)
(* Go channels are unbuffered: a send and its receive are one joint step.  *)
(* A goroutine's steps between two blocking operations are one action.     *)
(***************************************************************************)
EXTENDS Integers, Sequences, FiniteSets, TLC

\* ---------------------------------------------------------------- bounds
NCalls == 2
NTexts == 2
MaxRows == 3
MaxReRecv == 1
\* Group: rows on the input channel, columns of a row, distinct scalars, largest nfields
MaxIn == 3
MaxCols == 2
NVals == 2
MaxKey == 3
\* Named: rows on r.Records, columns of the ResultSet
MaxRecs == 2
MaxNamedCols == 2

Calls == 1..NCalls
Texts == 1..NTexts

\* ------------------------------------------------------- values and rows
\* A dynamically typed scalar (interface{}): its dynamic type and payload.
Val(t, v) == [t |-> t, v |-> v]

\* The raw value the driver hands to Scan for column j of cursor row i.
\* Column 1 is an integer that two consecutive rows share (rows 1 and 2 hold 1, rows
\* 3 and 4 hold 2), as the leading column of an ordered query does; column 2 differs
\* on every row and is a []byte on odd rows, a string on even ones.
RawRow(i) ==
    << Val("int", (i + 1) \div 2), Val(IF i % 2 = 1 THEN "bytes" ELSE "string", i) >>

\* rows.Columns() of every cursor of the model.
ColNames == << "id", "name" >>

\* The scanned values handed on as they are, a []byte left a []byte.
ConvertNothing(row) == row

\* db.go:124-128: a []byte value becomes the string with the same bytes.
Convert(row) ==
    [j \in 1..Len(row) |->
        IF row[j].t = "bytes" THEN Val("string", row[j].v) ELSE row[j]]

\* ------------------------------------------------------------ variables
VARIABLES
    kind,      \* which constructor built the executor: "sqls" (Sql) or "sqlr" (SqlR)
    mutex,     \* dbhandler.Mutex: 0 when free, else the call holding it
    stmt,      \* dbhandler.stmt: text -> handle (0 is nil)
    prepLog,   \* every db.Prepare invocation so far: [q, ok]; a handle is its index here
    pc,        \* per call: position inside h.sql
    query,     \* per call: the SQL text it was given (0 before the call)
    lstmt,     \* per call: the local stmt of prep
    fault,     \* per call: the database operation that failed inside h.sql ("none" so far)
    res,       \* per call: what h.sql returned (cols, ch, err)
    ret,       \* per call: what the public function (sqls or sqlr) returned
    rows,      \* per call: the cursor: n rows, pos, times opened, times closed
    wpc,       \* per call: position of the producer goroutine
    retv,      \* per call: the tuple the producer is offering
    to,        \* per call: the time.After(time.Minute) channel: unset, armed, fired
    chClosed,  \* per call: number of close(ch) executed
    scanErr,   \* per call: index of the row whose Scan failed (0: none)
    timedOut,  \* per call: the producer took the timeout branch
    recvd,     \* per call: tuples the consumer received, in order
    sawClose,  \* per call: the consumer observed the close of the sequence
    reRecv,    \* per call: receives made after that (a second iteration over the channel)
    \* ---- Group (unnamed/part_000)
    nfields,   \* Group's nfields argument
    ginput,    \* every row the input channel all carries, in order
    all,       \* the rows of all not yet received by Group
    allClosed, \* the sender of all has closed it
    gpc,       \* position of Group's goroutine: recv, outer, inner, done
    grp,       \* its grp (nil is << >>, as is an empty slice: both have length 0)
    inner,     \* its inner: 0 is nil, else the id of the channel
    vr,        \* the remainder it is about to send on inner
    innerCloses, \* per inner channel made so far: number of close(inner) executed
    outerCloses, \* number of close(outer) executed
    groups,    \* what the consumer received: per group its key, its channel, its rows
    cur,       \* the inner channel the consumer is ranging over (0: it ranges over outer)
    cdone,     \* the consumer observed the close of outer
    skipped,   \* the consumer left an inner sequence before its close
    \* ---- ResultSet.Named (db.go)
    ncols,     \* r.Columns
    ninput,    \* every tuple r.Records carries, in order
    records,   \* the tuples of r.Records not yet received by the relay
    recClosed, \* the producer has closed r.Records
    npc,       \* position of the relay goroutine: recv, send, done
    nm,        \* the map it is about to send
    nCloses,   \* number of close(ch) executed by the relay
    nrecvd,    \* maps the consumer received, in order
    nSawClose  \* the consumer observed the close of the derived sequence

execVars == << kind, mutex, stmt, prepLog, pc, query, lstmt, fault, res, ret, rows, wpc,
               retv, to, chClosed, scanErr, timedOut, recvd, sawClose, reRecv >>

groupVars == << nfields, ginput, all, allClosed, gpc, grp, inner, vr, innerCloses,
                outerCloses, groups, cur, cdone, skipped >>

namedVars == << ncols, ninput, records, recClosed, npc, nm, nCloses, nrecvd, nSawClose >>

vars == << execVars, groupVars, namedVars >>

\* ---------------------------------------------------------- constructors
\* db.go:13-15, 44-46: a fresh dbhandler with an empty statement map.
ExecInit ==
    /\ kind \in {"sqls", "sqlr"}
    /\ mutex = 0
    /\ stmt = [q \in Texts |-> 0]
    /\ prepLog = << >>
    /\ pc = [c \in Calls |-> "idle"]
    /\ query = [c \in Calls |-> 0]
    /\ lstmt = [c \in Calls |-> 0]
    /\ fault = [c \in Calls |-> "none"]
    /\ res = [c \in Calls |-> [err |-> "pending"]]
    /\ ret = [c \in Calls |-> [err |-> "pending"]]
    /\ rows = [c \in Calls |-> [n |-> 0, pos |-> 0, opens |-> 0, closes |-> 0]]
    /\ wpc = [c \in Calls |-> "none"]
    /\ retv = [c \in Calls |-> << >>]
    /\ to = [c \in Calls |-> "unset"]
    /\ chClosed = [c \in Calls |-> 0]
    /\ scanErr = [c \in Calls |-> 0]
    /\ timedOut = [c \in Calls |-> FALSE]
    /\ recvd = [c \in Calls |-> << >>]
    /\ sawClose = [c \in Calls |-> FALSE]
    /\ reRecv = [c \in Calls |-> 0]

\* ------------------------------------------------------- return values
\* A nil-able Go value is << >> (nil) or << x >>.
\* db.go:92, 96, 100: return nil, nil, err
ErrReturn(e) == [cols |-> << >>, ch |-> << >>, err |-> e]

\* db.go:143: return retn, ch, nil
OkReturn(c) == [cols |-> << ColNames >>, ch |-> << c >>, err |-> "nil"]

\* db.go:76-79
sqls(r) == [ch |-> r.ch, err |-> r.err]

\* sqlr without its error check: a ResultSet is built around the nil results.
sqlrUnchecked(r) ==
    [rs |-> << [Columns |-> r.cols, Records |-> r.ch] >>, err |-> r.err]

\* db.go:81-87
sqlr(r) ==
    IF r.err # "nil"
    THEN [rs |-> << >>, err |-> r.err]
    ELSE [rs |-> << [Columns |-> r.cols[1], Records |-> r.ch[1]] >>, err |-> r.err]

Public(r) == IF kind = "sqls" THEN sqls(r) ELSE sqlr(r)

\* The channel the caller holds after the call, as << >> or << id >>.
HeldChan(c) ==
    IF pc[c] # "returned" THEN << >>
    ELSE IF kind = "sqls" THEN ret[c].ch
    ELSE IF ret[c].rs = << >> THEN << >> ELSE << ret[c].rs[1].Records >>

Return(c, r) ==
    /\ res' = [res EXCEPT ![c] = r]
    /\ ret' = [ret EXCEPT ![c] = Public(r)]
    /\ pc' = [pc EXCEPT ![c] = "returned"]

\* ------------------------------------------------------------ dbhandler
\* prep without its lock: the lookup and the insert race.
MutexIgnored == TRUE

\* db.go:61: h.Lock() returns only when no one holds the mutex.
MutexFree == mutex = 0

\* A template calls the function with some SQL text.
Call(c) ==
    /\ pc[c] = "idle"
    /\ \E q \in Texts : query' = [query EXCEPT ![c] = q]
    /\ pc' = [pc EXCEPT ![c] = "lock"]
    /\ UNCHANGED << kind, mutex, stmt, prepLog, lstmt, fault, res, ret, rows, wpc, retv, to,
                    chClosed, scanErr, timedOut, recvd, sawClose, reRecv >>
    /\ UNCHANGED << groupVars, namedVars >>

\* db.go:61-64: h.Lock(); stmt := h.stmt[query]; if stmt == nil
PrepLock(c) ==
    /\ pc[c] = "lock"
    /\ MutexFree
    /\ mutex' = c
    /\ lstmt' = [lstmt EXCEPT ![c] = stmt[query[c]]]
    /\ pc' = [pc EXCEPT ![c] = IF stmt[query[c]] = 0 THEN "prepare" ELSE "unlock"]
    /\ UNCHANGED << kind, stmt, prepLog, query, fault, res, ret, rows, wpc, retv, to,
                    chClosed, scanErr, timedOut, recvd, sawClose, reRecv >>
    /\ UNCHANGED << groupVars, namedVars >>

\* The map entry written before err is looked at: a failed Prepare is stored too.
StmtStoredAlways(q, ok, h) == [stmt EXCEPT ![q] = h]

\* db.go:68-71: if err != nil { return nil, err }; h.stmt[query] = stmt
StmtAfterPrepare(q, ok, h) == IF ok THEN [stmt EXCEPT ![q] = h] ELSE stmt

\* db.go:67-71: stmt, err = h.db.Prepare(query); on success h.stmt[query] = stmt
PrepPrepare(c) ==
    /\ pc[c] = "prepare"
    /\ \E ok \in BOOLEAN :
        /\ prepLog' = Append(prepLog, [q |-> query[c], ok |-> ok])
        /\ stmt' = StmtAfterPrepare(query[c], ok, Len(prepLog) + 1)
        /\ IF ok
           THEN /\ lstmt' = [lstmt EXCEPT ![c] = Len(prepLog) + 1]
                /\ pc' = [pc EXCEPT ![c] = "unlock"]
                /\ UNCHANGED fault
           ELSE /\ fault' = [fault EXCEPT ![c] = "prepare"]
                /\ pc' = [pc EXCEPT ![c] = "preperr"]
                /\ UNCHANGED lstmt
    /\ UNCHANGED << kind, mutex, query, res, ret, rows, wpc, retv, to,
                    chClosed, scanErr, timedOut, recvd, sawClose, reRecv >>
    /\ UNCHANGED << groupVars, namedVars >>

\* db.go:62, 73: the deferred h.Unlock(), then return stmt, nil
PrepUnlock(c) ==
    /\ pc[c] = "unlock"
    /\ mutex' = 0
    /\ pc' = [pc EXCEPT ![c] = "query"]
    /\ UNCHANGED << kind, stmt, prepLog, query, lstmt, fault, res, ret, rows, wpc, retv, to,
                    chClosed, scanErr, timedOut, recvd, sawClose, reRecv >>
    /\ UNCHANGED << groupVars, namedVars >>

\* An Unlock at the end of prep instead of the deferred one: the error return keeps
\* the mutex locked.
NoUnlockOnError(m) == m

\* db.go:62, 69: the deferred h.Unlock() also runs on return nil, err.
UnlockOnError(m) == 0

\* db.go:62, 69, 90-93: the deferred h.Unlock(), return nil, err; sql returns nil, nil, err
PrepFail(c) ==
    /\ pc[c] = "preperr"
    /\ mutex' = UnlockOnError(mutex)
    /\ Return(c, ErrReturn("prepare"))
    /\ UNCHANGED << kind, stmt, prepLog, query, lstmt, fault, rows, wpc, retv, to,
                    chClosed, scanErr, timedOut, recvd, sawClose, reRecv >>
    /\ UNCHANGED << groupVars, namedVars >>

\* db.go:94-97: rows, err := stmt.Query(args...)
Query(c) ==
    /\ pc[c] = "query"
    /\ \/ /\ \E n \in 0..MaxRows :
              rows' = [rows EXCEPT ![c] = [n |-> n, pos |-> 0, opens |-> 1, closes |-> 0]]
          /\ pc' = [pc EXCEPT ![c] = "columns"]
          /\ UNCHANGED << fault, res, ret >>
       \/ /\ fault' = [fault EXCEPT ![c] = "query"]
          /\ Return(c, ErrReturn("query"))
          /\ UNCHANGED rows
    /\ UNCHANGED << kind, mutex, stmt, prepLog, query, lstmt, wpc, retv, to,
                    chClosed, scanErr, timedOut, recvd, sawClose, reRecv >>
    /\ UNCHANGED << groupVars, namedVars >>

\* db.go:98-104: retn, err := rows.Columns(); ch := make(chan); go func() { ... }()
\* The goroutine runs from here on, concurrently with the return of sql.
Columns(c) ==
    /\ pc[c] = "columns"
    /\ \/ /\ wpc' = [wpc EXCEPT ![c] = "start"]
          /\ pc' = [pc EXCEPT ![c] = "spawned"]
          /\ UNCHANGED << fault, res, ret >>
       \/ /\ fault' = [fault EXCEPT ![c] = "columns"]
          /\ Return(c, ErrReturn("columns"))
          /\ UNCHANGED wpc
    /\ UNCHANGED << kind, mutex, stmt, prepLog, query, lstmt, rows, retv, to,
                    chClosed, scanErr, timedOut, recvd, sawClose, reRecv >>
    /\ UNCHANGED << groupVars, namedVars >>

\* db.go:143: return retn, ch, nil
SqlReturn(c) ==
    /\ pc[c] = "spawned"
    /\ Return(c, OkReturn(c))
    /\ UNCHANGED << kind, mutex, stmt, prepLog, query, lstmt, fault, rows, wpc, retv, to,
                    chClosed, scanErr, timedOut, recvd, sawClose, reRecv >>
    /\ UNCHANGED << groupVars, namedVars >>

\* ------------------------------------------------- the producer goroutine
\* db.go:111: to := time.After(time.Minute)
WStart(c) ==
    /\ wpc[c] = "start"
    /\ to' = [to EXCEPT ![c] = "armed"]
    /\ wpc' = [wpc EXCEPT ![c] = "next"]
    /\ UNCHANGED << kind, mutex, stmt, prepLog, pc, query, lstmt, fault, res, ret, rows, retv,
                    chClosed, scanErr, timedOut, recvd, sawClose, reRecv >>
    /\ UNCHANGED << groupVars, namedVars >>

\* The runtime timer of time.After: one minute after it was armed it fires, once.
TimerFire(c) ==
    /\ to[c] = "armed"
    /\ to' = [to EXCEPT ![c] = "fired"]
    /\ UNCHANGED << kind, mutex, stmt, prepLog, pc, query, lstmt, fault, res, ret, rows, wpc,
                    retv, chClosed, scanErr, timedOut, recvd, sawClose, reRecv >>
    /\ UNCHANGED << groupVars, namedVars >>

\* A second rows.Next() inside the loop body: every other row is skipped.
AdvanceTwice(p) == p + 2

\* db.go:113: one rows.Next() per iteration moves the cursor one row on.
Advance(p) == p + 1

\* continue instead of break: the failing row is skipped and production goes on.
AfterScanErrContinue == "next"

\* db.go:119-122: a Scan error breaks out of the loop, to rows.Close().
AfterScanErr == "close"

\* db.go:113-128: rows.Next(); Scan into retv; convert []byte to string
WNext(c) ==
    /\ wpc[c] = "next"
    /\ IF rows[c].pos < rows[c].n
       THEN /\ rows' = [rows EXCEPT ![c].pos = Advance(rows[c].pos)]
            /\ \/ /\ retv' = [retv EXCEPT ![c] = Convert(RawRow(rows'[c].pos))]
                  /\ wpc' = [wpc EXCEPT ![c] = "send"]
                  /\ UNCHANGED scanErr
               \/ /\ scanErr' = [scanErr EXCEPT ![c] = rows'[c].pos]
                  /\ wpc' = [wpc EXCEPT ![c] = AfterScanErr]
                  /\ UNCHANGED retv
       ELSE /\ wpc' = [wpc EXCEPT ![c] = "close"]
            /\ UNCHANGED << rows, retv, scanErr >>
    /\ UNCHANGED << kind, mutex, stmt, prepLog, pc, query, lstmt, fault, res, ret, to,
                    chClosed, timedOut, recvd, sawClose, reRecv >>
    /\ UNCHANGED << groupVars, namedVars >>

\* The send retried after it succeeded: the same tuple is offered again.
AfterSendResend == "send"

\* db.go:131-132, 137: after a completed send the loop goes on to the next rows.Next().
AfterSend == "next"

\* time.After inside the select: every send gets a fresh minute.
TimerRearmed(t) == "armed"

\* db.go:111, 130-136: to is made once, before the loop; a completed send leaves it as it is.
TimerAfterSend(t) == t

\* db.go:131-132: the producer's side of a completed send.
SendDone(c) ==
    /\ wpc' = [wpc EXCEPT ![c] = AfterSend]
    /\ to' = [to EXCEPT ![c] = TimerAfterSend(to[c])]

\* db.go:131: case ch <- retv, taken together with the consumer's receive.
Recv(c) ==
    /\ wpc[c] = "send"
    /\ HeldChan(c) = << c >>
    /\ recvd' = [recvd EXCEPT ![c] = Append(recvd[c], retv[c])]
    /\ SendDone(c)
    /\ UNCHANGED << kind, mutex, stmt, prepLog, pc, query, lstmt, fault, res, ret, rows, retv,
                    chClosed, scanErr, timedOut, sawClose, reRecv >>
    /\ UNCHANGED << groupVars, namedVars >>

\* A select without the timeout case.
NeverExpired(c) == FALSE

\* db.go:133: case <-to is ready once the timer has fired.
Expired(c) == to[c] = "fired"

\* break instead of break L: only the select is left, the offered tuple is dropped and
\* the loop goes on.
AfterTimeoutBreak == "next"

\* db.go:135: break L leaves the loop, to rows.Close().
AfterTimeout == "close"

\* db.go:133-135: log "Query timed out"; break L
WTimeout(c) ==
    /\ wpc[c] = "send"
    /\ Expired(c)
    /\ timedOut' = [timedOut EXCEPT ![c] = TRUE]
    /\ wpc' = [wpc EXCEPT ![c] = AfterTimeout]
    /\ UNCHANGED << kind, mutex, stmt, prepLog, pc, query, lstmt, fault, res, ret, rows, retv,
                    to, chClosed, scanErr, recvd, sawClose, reRecv >>
    /\ UNCHANGED << groupVars, namedVars >>

\* db.go:138-140: rows.Close() (an error of it is only logged)
WClose(c) ==
    /\ wpc[c] = "close"
    /\ rows' = [rows EXCEPT ![c].closes = rows[c].closes + 1]
    /\ wpc' = [wpc EXCEPT ![c] = "exit"]
    /\ UNCHANGED << kind, mutex, stmt, prepLog, pc, query, lstmt, fault, res, ret, retv, to,
                    chClosed, scanErr, timedOut, recvd, sawClose, reRecv >>
    /\ UNCHANGED << groupVars, namedVars >>

\* db.go:108: the deferred close(ch) as the goroutine returns
WExit(c) ==
    /\ wpc[c] = "exit"
    /\ chClosed' = [chClosed EXCEPT ![c] = chClosed[c] + 1]
    /\ wpc' = [wpc EXCEPT ![c] = "done"]
    /\ UNCHANGED << kind, mutex, stmt, prepLog, pc, query, lstmt, fault, res, ret, rows, retv,
                    to, scanErr, timedOut, recvd, sawClose, reRecv >>
    /\ UNCHANGED << groupVars, namedVars >>

\* The consumer's range over the channel ends when it receives from the closed channel.
RecvClose(c) ==
    /\ HeldChan(c) = << c >>
    /\ chClosed[c] > 0
    /\ ~sawClose[c]
    /\ sawClose' = [sawClose EXCEPT ![c] = TRUE]
    /\ UNCHANGED << kind, mutex, stmt, prepLog, pc, query, lstmt, fault, res, ret, rows, wpc,
                    retv, to, chClosed, scanErr, timedOut, recvd, reRecv >>
    /\ UNCHANGED << groupVars, namedVars >>

\* A receive on the channel after the consumer saw it closed: a receive on a closed
\* channel returns at once, with the zero value and ok = false (no tuple).
ReRecv(c) ==
    /\ HeldChan(c) = << c >>
    /\ sawClose[c]
    /\ reRecv[c] < MaxReRecv
    /\ reRecv' = [reRecv EXCEPT ![c] = reRecv[c] + 1]
    /\ UNCHANGED << kind, mutex, stmt, prepLog, pc, query, lstmt, fault, res, ret, rows, wpc,
                    retv, to, chClosed, scanErr, timedOut, recvd, sawClose >>
    /\ UNCHANGED << groupVars, namedVars >>

\* One step of call c, of its producer goroutine or of its consumer.
Step(c) ==
        \/ Call(c)
        \/ PrepLock(c)
        \/ PrepPrepare(c)
        \/ PrepUnlock(c)
        \/ PrepFail(c)
        \/ Query(c)
        \/ Columns(c)
        \/ SqlReturn(c)
        \/ WStart(c)
        \/ TimerFire(c)
        \/ WNext(c)
        \/ Recv(c)
        \/ WTimeout(c)
        \/ WClose(c)
        \/ WExit(c)
        \/ RecvClose(c)
        \/ ReRecv(c)

Next == \E c \in Calls : Step(c)

\* ------------------------------------------------------------------ Group
Min(a, b) == IF a < b THEN a ELSE b

\* The rows Group is fed: any slices of scalars, of any lengths.
GVals == 1..NVals
RECURSIVE SeqsUpTo(_, _)
SeqsUpTo(S, n) ==
    IF n = 0 THEN { << >> }
    ELSE LET shorter == SeqsUpTo(S, n - 1)
         IN  shorter \cup { Append(s, x) : s \in { t \in shorter : Len(t) = n - 1 }, x \in S }
GRows == SeqsUpTo(GVals, MaxCols)

\* part_000:8-18
eq(a, b) ==
    IF Len(a) # Len(b) THEN FALSE
    ELSE \A i \in 1..Len(a) : a[i] = b[i]

\* part_000:33-37: n := len(rec); if n > nfields { n = nfields }; fx, vr := rec[:n], rec[n:]
KeyLen(rec) == Min(Len(rec), nfields)
Fx(rec) == SubSeq(rec, 1, KeyLen(rec))
Vr(rec) == SubSeq(rec, KeyLen(rec) + 1, Len(rec))

\* The previous inner left open when the key changes or the input ends.
CloseInnerNever(closes) == closes

\* part_000:39-41, 48-50: if inner != nil { close(inner) }
CloseInner(closes) ==
    IF inner # 0 THEN [closes EXCEPT ![inner] = closes[inner] + 1] ELSE closes

\* No call of Group is running.
GroupIdle ==
    /\ nfields = 0
    /\ ginput = << >>
    /\ all = << >>
    /\ allClosed = FALSE
    /\ gpc = "none"
    /\ grp = << >>
    /\ inner = 0
    /\ vr = << >>
    /\ innerCloses = << >>
    /\ outerCloses = 0
    /\ groups = << >>
    /\ cur = 0
    /\ cdone = FALSE
    /\ skipped = FALSE

\* part_000:25-31: Group(nfields, all) has made outer and started its goroutine,
\* with grp and inner nil; a template ranges over the channel it returned.
GroupStart ==
    /\ nfields \in 0..MaxKey
    /\ ginput \in SeqsUpTo(GRows, MaxIn)
    /\ all = ginput
    /\ allClosed = FALSE
    /\ gpc = "recv"
    /\ grp = << >>
    /\ inner = 0
    /\ vr = << >>
    /\ innerCloses = << >>
    /\ outerCloses = 0
    /\ groups = << >>
    /\ cur = 0
    /\ cdone = FALSE
    /\ skipped = FALSE

\* The sender of all closes it after its last row.
AllClose ==
    /\ all = << >>
    /\ ~allClosed
    /\ allClosed' = TRUE
    /\ UNCHANGED << nfields, ginput, all, gpc, grp, inner, vr, innerCloses, outerCloses,
                    groups, cur, cdone, skipped >>
    /\ UNCHANGED << execVars, namedVars >>

\* inner made only while it is nil: the channel just closed is offered again.
ReuseInner(closes) == IF inner = 0 THEN Len(closes) + 1 ELSE inner

\* part_000:43: inner = make(chan []interface{}), a channel no earlier one is.
NewInner(closes) == Len(closes) + 1

\* part_000:33-45: the worker's steps on a row rec it received: on a new key close
\* the previous inner, make the next one and go on to offer the pair on outer; else
\* go on to send on inner.
GTake(rec) ==
    /\ vr' = Vr(rec)
    /\ IF ~eq(Fx(rec), grp)
       THEN /\ innerCloses' = Append(CloseInner(innerCloses), 0)
            /\ grp' = Fx(rec)
            /\ inner' = NewInner(innerCloses)
            /\ gpc' = "outer"
       ELSE /\ gpc' = "inner"
            /\ UNCHANGED << innerCloses, grp, inner >>

\* part_000:32-45: receive rec from all and take it.
GRecv ==
    /\ gpc = "recv"
    /\ all # << >>
    /\ all' = Tail(all)
    /\ GTake(Head(all))
    /\ UNCHANGED << nfields, ginput, allClosed, outerCloses, groups, cur, cdone, skipped >>
    /\ UNCHANGED << execVars, namedVars >>

\* The row that opened a group dropped: after the pair the worker takes the next row.
AfterOuterNextRow == "recv"

\* part_000:44-46: after the pair was taken the row that opened the group is sent on
\* its inner.
AfterOuter == "inner"

\* part_000:44: outer <- grouped{grp, inner}, taken together with the consumer's receive
\* on outer; the consumer then ranges over the Inner it was given.
GSendOuter ==
    /\ gpc = "outer"
    /\ cur = 0 /\ ~cdone
    /\ groups' = Append(groups, [Group |-> grp, ch |-> inner, Inner |-> << >>])
    /\ cur' = inner
    /\ gpc' = AfterOuter
    /\ UNCHANGED << nfields, ginput, all, allClosed, grp, inner, vr, innerCloses,
                    outerCloses, cdone, skipped >>
    /\ UNCHANGED << execVars, namedVars >>

\* An inner made with room for a row: the send completes with no receiver there.
InnerBuffered == TRUE

\* part_000:43, 46: inner is unbuffered, so inner <- vr completes only with the
\* consumer receiving on that channel.
InnerReceiverReady == cur = inner

\* part_000:46: inner <- vr, taken together with the consumer's receive on that
\* channel. A send on a nil channel blocks forever.
GSendInner ==
    /\ gpc = "inner"
    /\ inner # 0
    /\ InnerReceiverReady
    /\ groups' = [groups EXCEPT ![Len(groups)].Inner = Append(@, vr)]
    /\ gpc' = "recv"
    /\ UNCHANGED << nfields, ginput, all, allClosed, grp, inner, vr, innerCloses,
                    outerCloses, cur, cdone, skipped >>
    /\ UNCHANGED << execVars, namedVars >>

\* part_000:48-51: after the loop close the last inner, if any, and close outer.
GEnd ==
    /\ innerCloses' = CloseInner(innerCloses)
    /\ outerCloses' = outerCloses + 1
    /\ gpc' = "done"

\* part_000:32, 48-51: all is closed and drained: the loop ends.
GFinish ==
    /\ gpc = "recv"
    /\ all = << >> /\ allClosed
    /\ GEnd
    /\ UNCHANGED << nfields, ginput, all, allClosed, grp, inner, vr, groups, cur, cdone,
                    skipped >>
    /\ UNCHANGED << execVars, namedVars >>

\* The consumer's range over an inner sequence ends at its close; it goes back to outer.
CInnerClosed ==
    /\ cur # 0
    /\ innerCloses[cur] > 0
    /\ cur' = 0
    /\ UNCHANGED << nfields, ginput, all, allClosed, gpc, grp, inner, vr, innerCloses,
                    outerCloses, groups, cdone, skipped >>
    /\ UNCHANGED << execVars, namedVars >>

\* The consumer leaves an inner sequence that is still open (or never ranges over it)
\* and asks outer for the next group.
CSkip ==
    /\ cur # 0
    /\ innerCloses[cur] = 0
    /\ cur' = 0
    /\ skipped' = TRUE
    /\ UNCHANGED << nfields, ginput, all, allClosed, gpc, grp, inner, vr, innerCloses,
                    outerCloses, groups, cdone >>
    /\ UNCHANGED << execVars, namedVars >>

\* The consumer's range over outer ends at its close.
COuterClosed ==
    /\ cur = 0 /\ ~cdone
    /\ outerCloses > 0
    /\ cdone' = TRUE
    /\ UNCHANGED << nfields, ginput, all, allClosed, gpc, grp, inner, vr, innerCloses,
                    outerCloses, groups, cur, skipped >>
    /\ UNCHANGED << execVars, namedVars >>

GroupNext ==
    \/ AllClose
    \/ GRecv
    \/ GSendOuter
    \/ GSendInner
    \/ GFinish
    \/ CInnerClosed
    \/ CSkip
    \/ COuterClosed

\* ------------------------------------------------------- ResultSet.Named
NNames == { "id", "name" }

\* What m[k] = v leaves a map with an entry for k holding: the entry is kept.
AssignIfAbsent(m, k, v) == IF k \in DOMAIN m THEN m ELSE (k :> v) @@ m

\* db.go:35: m[v] = rec[i]
Assign(m, k, v) == (k :> v) @@ m

\* db.go:33-36: m := make(map); for i, v := range r.Columns { m[v] = rec[i] }
RECURSIVE NamedLoop(_, _, _, _)
NamedLoop(cols, rec, i, m) ==
    IF i > Len(cols) THEN m
    ELSE NamedLoop(cols, rec, i + 1, Assign(m, cols[i], rec[i]))
NamedMap(cols, rec) == NamedLoop(cols, rec, 1, [k \in {} |-> 0])

\* No call of Named is running.
NamedIdle ==
    /\ ncols = << >>
    /\ ninput = << >>
    /\ records = << >>
    /\ recClosed = FALSE
    /\ npc = "none"
    /\ nm = << >>
    /\ nCloses = 0
    /\ nrecvd = << >>
    /\ nSawClose = FALSE

\* db.go:28-30, 40: r.Named() on a ResultSet built by sqlr (every tuple has one value
\* per column) has made ch and started the relay; a template ranges over ch.
NamedStart ==
    /\ ncols \in SeqsUpTo(NNames, MaxNamedCols)
    /\ ninput \in SeqsUpTo({ r \in GRows : Len(r) = Len(ncols) }, MaxRecs)
    /\ records = ninput
    /\ recClosed = FALSE
    /\ npc = "recv"
    /\ nm = << >>
    /\ nCloses = 0
    /\ nrecvd = << >>
    /\ nSawClose = FALSE

\* The producer closes r.Records after its last tuple.
RecordsClose ==
    /\ records = << >>
    /\ ~recClosed
    /\ recClosed' = TRUE
    /\ UNCHANGED << ncols, ninput, records, npc, nm, nCloses, nrecvd, nSawClose >>
    /\ UNCHANGED << execVars, groupVars >>

\* db.go:32-36: receive rec from r.Records and build its map
NRecv ==
    /\ npc = "recv"
    /\ records # << >>
    /\ nm' = NamedMap(ncols, Head(records))
    /\ records' = Tail(records)
    /\ npc' = "send"
    /\ UNCHANGED << ncols, ninput, recClosed, nCloses, nrecvd, nSawClose >>
    /\ UNCHANGED << execVars, groupVars >>

\* db.go:37: ch <- m, taken together with the consumer's receive
NSend ==
    /\ npc = "send"
    /\ nrecvd' = Append(nrecvd, nm)
    /\ npc' = "recv"
    /\ UNCHANGED << ncols, ninput, records, recClosed, nm, nCloses, nSawClose >>
    /\ UNCHANGED << execVars, groupVars >>

\* db.go:31-32: r.Records is closed and drained: the deferred close(ch)
NFinish ==
    /\ npc = "recv"
    /\ records = << >> /\ recClosed
    /\ nCloses' = nCloses + 1
    /\ npc' = "done"
    /\ UNCHANGED << ncols, ninput, records, recClosed, nm, nrecvd, nSawClose >>
    /\ UNCHANGED << execVars, groupVars >>

\* The consumer's range over the derived sequence ends at its close.
NRecvClose ==
    /\ nCloses > 0
    /\ ~nSawClose
    /\ nSawClose' = TRUE
    /\ UNCHANGED << ncols, ninput, records, recClosed, npc, nm, nCloses, nrecvd >>
    /\ UNCHANGED << execVars, groupVars >>

NamedNext ==
    \/ RecordsClose
    \/ NRecv
    \/ NSend
    \/ NFinish
    \/ NRecvClose

\* ------------------------------------------------------- specifications
\* One executor and the templates calling it.
Init == ExecInit /\ GroupIdle /\ NamedIdle

Spec == Init /\ [][Next]_vars

\* The Go scheduler runs every runnable goroutine and the runtime fires every armed
\* timer; nothing makes a template call the function or keep receiving.
\* The calls share the statement cache and its mutex only; a producer goroutine reads
\* and writes nothing but its own call's cursor, channel and timer. Its progress is
\* checked on an executor that serves one call.
FairCalls == { 1 }

FairNext == \E c \in FairCalls : Step(c)

Fairness ==
    \A c \in FairCalls :
        /\ WF_vars(WStart(c))
        /\ WF_vars(TimerFire(c))
        /\ WF_vars(WNext(c))
        /\ WF_vars(WTimeout(c))
        /\ WF_vars(WClose(c))
        /\ WF_vars(WExit(c))

FairSpec == Init /\ [][FairNext]_vars /\ Fairness

\* No executor call is running (the executor is one built by Sql).
ExecIdle == ExecInit /\ kind = "sqls"

\* One call of Group, its input and its consumer.
GroupInit == ExecIdle /\ GroupStart /\ NamedIdle

GroupSpec == GroupInit /\ [][GroupNext]_vars

\* One call of Named, its input and its consumer.
NamedInit == ExecIdle /\ GroupIdle /\ NamedStart

NamedSpec == NamedInit /\ [][NamedNext]_vars

\* ------------------------------------------------------------ pipelines
\* A template passes the channel of one sql call to Group, or the ResultSet of one
\* sqlr call to Named, or ranges over the channel itself. gpc or npc is "wait" while
\* the template has yet to make that call.

\* The template will call Group on the channel, with some nfields.
GroupPiped ==
    /\ nfields \in 0..MaxKey
    /\ ginput = << >>
    /\ all = << >>
    /\ allClosed = FALSE
    /\ gpc = "wait"
    /\ grp = << >>
    /\ inner = 0
    /\ vr = << >>
    /\ innerCloses = << >>
    /\ outerCloses = 0
    /\ groups = << >>
    /\ cur = 0
    /\ cdone = FALSE
    /\ skipped = FALSE

\* The template will call Named on the ResultSet.
NamedPiped ==
    /\ ncols = << >>
    /\ ninput = << >>
    /\ records = << >>
    /\ recClosed = FALSE
    /\ npc = "wait"
    /\ nm = << >>
    /\ nCloses = 0
    /\ nrecvd = << >>
    /\ nSawClose = FALSE

PipeInit ==
    /\ ExecInit
    /\ \/ GroupIdle /\ NamedIdle
       \/ GroupPiped /\ NamedIdle
       \/ GroupIdle /\ NamedPiped /\ kind = "sqlr"

\* The template ranges over the channel of the call itself.
Direct == gpc = "none" /\ npc = "none"

PRecv(c) == Direct /\ Recv(c)

PRecvClose(c) == Direct /\ RecvClose(c)

\* part_000:25-31, 53: Group(nfields, all) on the channel call c returned: outer is made
\* and the worker started, with grp and inner nil.
PGroupStart(c) ==
    /\ gpc = "wait"
    /\ HeldChan(c) = << c >>
    /\ gpc' = "recv"
    /\ UNCHANGED << nfields, ginput, all, allClosed, grp, inner, vr, innerCloses,
                    outerCloses, groups, cur, cdone, skipped >>
    /\ UNCHANGED << execVars, namedVars >>

\* db.go:131 with part_000:32-45: the producer's send taken together with the
\* receive of the grouping worker.
PGRecv(c) ==
    /\ gpc = "recv"
    /\ wpc[c] = "send"
    /\ GTake(retv[c])
    /\ ginput' = Append(ginput, retv[c])
    /\ SendDone(c)
    /\ UNCHANGED << nfields, all, allClosed, outerCloses, groups, cur, cdone, skipped >>
    /\ UNCHANGED << kind, mutex, stmt, prepLog, pc, query, lstmt, fault, res, ret, rows, retv,
                    chClosed, scanErr, timedOut, recvd, sawClose, reRecv >>
    /\ UNCHANGED namedVars

\* part_000:32, 48-51: the producer's channel is closed: the range over it ends.
PGFinish(c) ==
    /\ gpc = "recv"
    /\ chClosed[c] > 0
    /\ GEnd
    /\ UNCHANGED << nfields, ginput, all, allClosed, grp, inner, vr, groups, cur, cdone,
                    skipped >>
    /\ UNCHANGED << execVars, namedVars >>

\* db.go:28-30, 40: r.Named() on the ResultSet call c returned: ch is made and the
\* relay started.
PNamedStart(c) ==
    /\ npc = "wait"
    /\ HeldChan(c) = << c >>
    /\ ncols' = ret[c].rs[1].Columns
    /\ npc' = "recv"
    /\ UNCHANGED << ninput, records, recClosed, nm, nCloses, nrecvd, nSawClose >>
    /\ UNCHANGED << execVars, groupVars >>

\* db.go:131 with db.go:32-36: the producer's send taken together with the receive
\* of the relay, which builds the map.
PNRecv(c) ==
    /\ npc = "recv"
    /\ wpc[c] = "send"
    /\ nm' = NamedMap(ncols, retv[c])
    /\ ninput' = Append(ninput, retv[c])
    /\ npc' = "send"
    /\ SendDone(c)
    /\ UNCHANGED << ncols, records, recClosed, nCloses, nrecvd, nSawClose >>
    /\ UNCHANGED << kind, mutex, stmt, prepLog, pc, query, lstmt, fault, res, ret, rows, retv,
                    chClosed, scanErr, timedOut, recvd, sawClose, reRecv >>
    /\ UNCHANGED groupVars

\* db.go:31-32: r.Records is closed: the range ends and the deferred close(ch) runs.
PNFinish(c) ==
    /\ npc = "recv"
    /\ chClosed[c] > 0
    /\ nCloses' = nCloses + 1
    /\ npc' = "done"
    /\ UNCHANGED << ncols, ninput, records, recClosed, nm, nrecvd, nSawClose >>
    /\ UNCHANGED << execVars, groupVars >>

PipeNext ==
    \E c \in FairCalls :
        \/ Call(c)
        \/ PrepLock(c)
        \/ PrepPrepare(c)
        \/ PrepUnlock(c)
        \/ PrepFail(c)
        \/ Query(c)
        \/ Columns(c)
        \/ SqlReturn(c)
        \/ WStart(c)
        \/ TimerFire(c)
        \/ WNext(c)
        \/ WTimeout(c)
        \/ WClose(c)
        \/ WExit(c)
        \/ PRecv(c)
        \/ PRecvClose(c)
        \/ PGroupStart(c)
        \/ PGRecv(c)
        \/ PGFinish(c)
        \/ GSendOuter
        \/ GSendInner
        \/ CInnerClosed
        \/ CSkip
        \/ COuterClosed
        \/ PNamedStart(c)
        \/ PNRecv(c)
        \/ PNFinish(c)
        \/ NSend
        \/ NRecvClose

PipeSpec == PipeInit /\ [][PipeNext]_vars

\* The scheduler runs the grouping worker and the relay as it runs the producer: a
\* receive from the producer's channel that stays possible is made. Nothing makes
\* the template receive.
PipeFairness ==
    /\ Fairness
    /\ \A c \in FairCalls :
        /\ WF_vars(PGRecv(c))
        /\ WF_vars(PGFinish(c))
        /\ WF_vars(PNRecv(c))
        /\ WF_vars(PNFinish(c))

PipeFairSpec == PipeInit /\ [][PipeNext]_vars /\ PipeFairness

\* ================================================================ claims
\* The db.Prepare invocations for text q, and the successful ones.
Prepares(q) == { i \in 1..Len(prepLog) : prepLog[i].q = q }
OkPrepares(q) == { i \in Prepares(q) : prepLog[i].ok }

\* The tuples a consumer gets from the first n rows of a cursor.
Delivered(n) == [i \in 1..n |-> Convert(RawRow(i))]

\* C1 as stated: db.Prepare is invoked at most once for each distinct SQL text.
\* Refuted: a Prepare that fails is not cached, so the next call prepares again.
C1_PrepareAtMostOnce ==
    \A q \in Texts : Cardinality(Prepares(q)) <= 1

\* C1 amended: for each SQL text db.Prepare succeeds at most once and is never
\* invoked again after it succeeded; the cache holds exactly the handle of that one
\* successful Prepare (no handle before it, never another one, never removed).
C1_PrepareSucceedsOnce ==
    \A q \in Texts :
        /\ Cardinality(OkPrepares(q)) <= 1
        /\ \A i \in OkPrepares(q) : \A j \in Prepares(q) : j <= i
        /\ (stmt[q] = 0) <=> (OkPrepares(q) = {})
        /\ stmt[q] # 0 => stmt[q] \in OkPrepares(q)

\* C1 witness: two calls issued the same text, both got the same handle, and the
\* text was prepared once.
C1_Witness ==
    \E c1, c2 \in Calls :
        /\ c1 # c2
        /\ query[c1] # 0 /\ query[c1] = query[c2]
        /\ pc[c1] = "returned" /\ pc[c2] = "returned"
        /\ lstmt[c1] # 0 /\ lstmt[c1] = lstmt[c2]
        /\ Cardinality(Prepares(query[c1])) = 1

\* C2 as stated: a consumer that receives until the close has received all N rows
\* of the cursor, in order. Refuted: a Scan error or the timeout ends the sequence early.
C2_AllRowsAtClose ==
    \A c \in Calls : sawClose[c] => recvd[c] = Delivered(rows[c].n)

\* C2 amended: what the consumer has received is always the first rows of the cursor
\* in cursor order (none dropped, duplicated or reordered), and when it observes the
\* close after a production that met no Scan error and no timeout, it has received
\* exactly the N rows.
C2_AllRowsUnlessCutShort ==
    \A c \in Calls :
        /\ Len(recvd[c]) <= rows[c].n
        /\ recvd[c] = Delivered(Len(recvd[c]))
        /\ (sawClose[c] /\ scanErr[c] = 0 /\ ~timedOut[c]) => recvd[c] = Delivered(rows[c].n)

\* C2 witness: a cursor of several rows was drained to its close without error.
C2_Witness ==
    \E c \in Calls :
        /\ sawClose[c] /\ scanErr[c] = 0 /\ ~timedOut[c]
        /\ rows[c].n >= 2
        /\ Len(recvd[c]) = rows[c].n

\* C3: a producer that offers a tuple always ends: whether or not the consumer ever
\* receives, it leaves the send (at the latest through the deadline), releases the
\* cursor, closes the sequence and terminates.
C3_ProducerEnds ==
    \A c \in FairCalls :
        (wpc[c] = "send") ~> (wpc[c] = "done" /\ rows[c].closes = 1 /\ chClosed[c] = 1)

\* C3 witness: the consumer received nothing, rows remained, and the producer ended
\* through the timeout with the cursor released and the sequence closed.
C3_Witness ==
    \E c \in FairCalls :
        /\ timedOut[c] /\ recvd[c] = << >> /\ rows[c].n >= 2
        /\ wpc[c] = "done" /\ rows[c].closes = 1 /\ chClosed[c] = 1

\* C4 as stated: a cursor is never closed more often than it was opened, and once the
\* call has returned and no producer is (or is still) running, the cursor it opened
\* has been closed exactly once. Refuted by the code: the return on a rows.Columns()
\* error leaves the cursor open and starts no producer.
C4_CursorReleased ==
    \A c \in Calls :
        /\ rows[c].closes <= rows[c].opens
        /\ (rows[c].opens = 1 /\ pc[c] = "returned" /\ wpc[c] \in {"none", "done"})
               => rows[c].closes = 1

\* C5: after a failed Prepare or Query the call has returned that error, with no
\* column list, no channel and (SqlR) no ResultSet, and no producer was started.
C5_FailsSynchronously ==
    \A c \in Calls :
        fault[c] \in {"prepare", "query"} =>
            /\ wpc[c] = "none" /\ to[c] = "unset" /\ rows[c].opens = 0
            /\ pc[c] = "returned" =>
                  /\ res[c] = [cols |-> << >>, ch |-> << >>, err |-> fault[c]]
                  /\ ret[c].err = fault[c]
                  /\ kind = "sqls" => ret[c].ch = << >>
                  /\ kind = "sqlr" => ret[c].rs = << >>
                  /\ HeldChan(c) = << >>

\* C5 witness: a call returned after its Query failed (its Prepare had succeeded).
C5_Witness ==
    \E c \in Calls : pc[c] = "returned" /\ fault[c] = "query" /\ lstmt[c] # 0

\* C6 as stated: once the Scan of row k has failed, the call has already returned
\* without error, the consumer holds exactly rows 1..k-1, production is over, and when
\* the producer is done the cursor is released and the sequence closed. Refuted for
\* k = 1: the goroutine is started before sql returns and may reach the failing Scan
\* of the first row before the return.
C6_ScanErrorAfterReturn ==
    \A c \in Calls :
        scanErr[c] > 0 =>
            /\ pc[c] = "returned" /\ fault[c] = "none" /\ ret[c].err = "nil"
            /\ recvd[c] = Delivered(scanErr[c] - 1)
            /\ wpc[c] \in {"close", "exit", "done"}
            /\ wpc[c] = "done" => (rows[c].closes = 1 /\ chClosed[c] = 1)
            /\ sawClose[c] => wpc[c] = "done"

\* C6 amended: once the Scan of row k has failed, the call is past every error return
\* and returns without error (it has already returned when k >= 2, and whenever the
\* consumer observes the close); the consumer holds exactly rows 1..k-1, production is
\* over (the producer is past its loop, so row k and the later rows are never
\* offered), and when the producer is done the cursor is released and the sequence
\* closed.
C6_ScanErrorEndsSequence ==
    \A c \in Calls :
        scanErr[c] > 0 =>
            /\ pc[c] \in {"spawned", "returned"} /\ fault[c] = "none"
            /\ pc[c] = "returned" => ret[c].err = "nil"
            /\ (scanErr[c] >= 2 \/ sawClose[c]) => pc[c] = "returned"
            /\ recvd[c] = Delivered(scanErr[c] - 1)
            /\ wpc[c] \in {"close", "exit", "done"}
            /\ wpc[c] = "done" => (rows[c].closes = 1 /\ chClosed[c] = 1)
            /\ sawClose[c] => wpc[c] = "done"

\* C6 witness: the Scan of the second of three rows failed and the consumer saw the
\* close after one tuple.
C6_Witness ==
    \E c \in Calls :
        /\ scanErr[c] = 2 /\ rows[c].n = 3
        /\ sawClose[c] /\ Len(recvd[c]) = 1

\* ---- Group
\* The key prefix and the remainder of a row for key width K.
KeyOf(rec, K) == SubSeq(rec, 1, Min(Len(rec), K))
RestOf(rec, K) == SubSeq(rec, Min(Len(rec), K) + 1, Len(rec))

\* The maximal runs of consecutive rows of s with equal key prefix, in order: per run
\* its key and the remainders of its rows.
RECURSIVE Runs(_, _)
Runs(s, K) ==
    IF s = << >> THEN << >>
    ELSE LET before == Runs(SubSeq(s, 1, Len(s) - 1), K)
             rec == s[Len(s)]
             samekey == KeyOf(s[Len(s) - 1], K) = KeyOf(rec, K)
         IN  IF Len(s) > 1 /\ samekey
             THEN [before EXCEPT ![Len(before)].Inner = Append(@, RestOf(rec, K))]
             ELSE Append(before, [Group |-> KeyOf(rec, K), Inner |-> << RestOf(rec, K) >>])

\* The groups the consumer received: key and rows of each.
Emitted == [i \in 1..Len(groups) |-> [Group |-> groups[i].Group, Inner |-> groups[i].Inner]]

\* All inner sequences the consumer received, one after the other.
RECURSIVE Concat(_)
Concat(gs) ==
    IF gs = << >> THEN << >> ELSE Concat(SubSeq(gs, 1, Len(gs) - 1)) \o gs[Len(gs)].Inner

\* Lexicographic order on key prefixes (a proper prefix comes first).
RECURSIVE LexLeq(_, _)
LexLeq(a, b) ==
    IF a = << >> THEN TRUE
    ELSE IF b = << >> THEN FALSE
    ELSE IF a[1] # b[1] THEN a[1] < b[1]
    ELSE LexLeq(Tail(a), Tail(b))

SortedByKey(s, K) ==
    \A i \in 1..Len(s) : \A j \in i..Len(s) : LexLeq(KeyOf(s[i], K), KeyOf(s[j], K))

\* Every channel Group made is closed exactly once.
GroupAllClosed ==
    /\ outerCloses = 1
    /\ \A i \in 1..Len(innerCloses) : innerCloses[i] = 1

\* C7 as stated: with nfields >= 1 and a consumer that drains every inner sequence,
\* the run goes on until the consumer has seen outer closed, and the groups it then
\* holds are the maximal runs of equal key prefix of the input. Refuted by the code
\* when the first row has no column: its empty key equals the nil grp, no group is
\* made and the goroutine blocks sending on the nil inner.
C7_GroupsAreRuns ==
    (nfields >= 1 /\ ~skipped) =>
        IF cdone
        THEN Emitted = Runs(ginput, nfields) /\ GroupAllClosed
        ELSE ENABLED GroupNext

\* The same holds for every input whose first row has at least one column.
GroupsAreRunsOfKeyedInput ==
    (nfields >= 1 /\ ~skipped /\ (ginput = << >> \/ ginput[1] # << >>)) =>
        IF cdone
        THEN Emitted = Runs(ginput, nfields) /\ GroupAllClosed
        ELSE ENABLED GroupNext

\* Every row has its key columns, and at least one column.
FullRows == \A i \in 1..Len(ginput) : Len(ginput[i]) >= 1 /\ Len(ginput[i]) >= nfields

\* C8 as stated: for every key width and every input of full rows sorted by its key
\* columns, the run goes on until the consumer has seen outer closed, and the inner
\* sequences it received, concatenated, are the input rows without their key columns.
\* Refuted by the code for nfields = 0 (see C9).
C8_ConcatIsRemainder ==
    (FullRows /\ SortedByKey(ginput, nfields) /\ ~skipped) =>
        IF cdone
        THEN Concat(groups) = [i \in 1..Len(ginput) |-> RestOf(ginput[i], nfields)]
        ELSE ENABLED GroupNext

\* C9 as stated: Group with nfields = 0 on three full rows goes on until the consumer has
\* seen outer closed, having received one group with the empty key and the three full
\* rows. Refuted by the code: eq(rec[:0], nil) is true, so no group is ever made and
\* the goroutine blocks sending the first row on the nil inner.
C9_ZeroWidthOneGroup ==
    (nfields = 0 /\ Len(ginput) = 3 /\ FullRows /\ ~skipped) =>
        IF cdone
        THEN Emitted = << [Group |-> << >>, Inner |-> ginput] >> /\ GroupAllClosed
        ELSE ENABLED GroupNext

\* ---- Named
\* The last position of column name k in cols.
LastIndex(cols, k) ==
    CHOOSE i \in 1..Len(cols) : cols[i] = k /\ \A j \in (i + 1)..Len(cols) : cols[j] # k

\* Named relays in order, one map per tuple, and closes only after r.Records is
\* closed and every tuple was relayed.
NamedRelaysInOrder ==
    /\ Len(nrecvd) <= Len(ninput)
    /\ \A k \in 1..Len(nrecvd) : DOMAIN nrecvd[k] = { ncols[i] : i \in 1..Len(ncols) }
    /\ nCloses <= 1
    /\ nCloses = 1 => (recClosed /\ records = << >> /\ npc = "done")
    /\ npc = "done" => Len(nrecvd) = Len(ninput)
    /\ nSawClose => nCloses = 1

\* C10 as stated: the k-th map received sends the i-th column name to the i-th value
\* of the k-th tuple. Refuted when a column name occurs twice: the map has one entry
\* per name, and the later column overwrites the earlier one.
C10_NamedByPosition ==
    /\ NamedRelaysInOrder
    /\ \A k \in 1..Len(nrecvd) : \A i \in 1..Len(ncols) :
           nrecvd[k][ncols[i]] = ninput[k][i]

\* C10 amended: the k-th map received sends each column name to the value of the
\* k-th tuple at the last position carrying that name (the i-th value for the i-th
\* name whenever the column names are distinct).
C10_NamedByLastPosition ==
    /\ NamedRelaysInOrder
    /\ \A k \in 1..Len(nrecvd) : \A i \in 1..Len(ncols) :
           nrecvd[k][ncols[i]] = ninput[k][LastIndex(ncols, ncols[i])]

\* C10 witness: a ResultSet of two distinct columns and two tuples was drained to
\* the close, each tuple relayed as its map.
C10_Witness ==
    /\ ncols = << "id", "name" >> /\ Len(ninput) = 2
    /\ nSawClose /\ Len(nrecvd) = 2
    /\ \A k \in 1..2 : nrecvd[k] = [id |-> ninput[k][1], name |-> ninput[k][2]]

\* ------------------------------------------------------------ C11

\* No tuple occurs twice in a sequence of received tuples.
NoRepeat(s) == \A i, j \in 1..Len(s) : i # j => s[i] # s[j]

\* C11: the channel returned by sql is consumed once. No tuple is received twice;
\* once the channel is closed the producer is gone and no receive of a tuple is
\* possible any more, so what was received by then is all there will ever be; and a
\* receive made after the close, a second iteration included, is enabled at once
\* and returns end-of-sequence with no tuple.
C11_SingleConsumption ==
    \A c \in Calls :
        /\ NoRepeat(recvd[c])
        /\ chClosed[c] > 0 => (wpc[c] = "done" /\ ~ ENABLED Recv(c))
        /\ (chClosed[c] > 0 /\ HeldChan(c) = << c >> /\ ~ sawClose[c]) => ENABLED RecvClose(c)
        /\ (sawClose[c] /\ reRecv[c] < MaxReRecv) => ENABLED ReRecv(c)
        /\ sawClose[c] => chClosed[c] > 0
        /\ reRecv[c] > 0 => sawClose[c]

\* C11 witness: a channel that carried two distinct tuples was ranged over to its
\* close and then received from again.
C11_Witness ==
    \E c \in Calls :
        /\ Len(recvd[c]) = 2 /\ recvd[c][1] # recvd[c][2]
        /\ sawClose[c] /\ reRecv[c] = MaxReRecv

\* ------------------------------------------------------------ C13

\* What C13 asks of the tuple built from the scanned values raw.
TupleFor(raw, tuple) ==
    /\ Len(tuple) = Len(ColNames)
    /\ \A j \in 1..Len(ColNames) :
           IF raw[j].t = "bytes"
           THEN tuple[j].t = "string" /\ tuple[j].v = raw[j].v
           ELSE tuple[j] = raw[j]

\* C13: the tuple built for cursor row k, while it is offered and once it is
\* received, has one value per result column, in column order: the text string
\* with the same bytes where the driver gave a byte array, and the driver's value
\* itself for any other type.
C13_BytesBecomeText ==
    \A c \in Calls :
        /\ \A k \in 1..Len(recvd[c]) : TupleFor(RawRow(k), recvd[c][k])
        /\ wpc[c] = "send" => TupleFor(RawRow(rows[c].pos), retv[c])

\* C13 witness: a consumer received a tuple whose second column was scanned as a
\* byte array and one whose second column was scanned as a string.
C13_Witness ==
    \E c \in Calls :
        /\ Len(recvd[c]) >= 2
        /\ RawRow(1)[2].t = "bytes" /\ recvd[c][1][2] = Val("string", 1)
        /\ RawRow(2)[2].t = "string" /\ recvd[c][2][2] = RawRow(2)[2]
        /\ recvd[c][1][1] = RawRow(1)[1]

\* ------------------------------------------------------------ C16

\* Call c is inside prep, between h.Lock() and the deferred h.Unlock().
InPrep(c) == pc[c] \in { "prepare", "unlock", "preperr" }

\* C16: the mutex is held by exactly the call that is inside prep, so at most one
\* call is between the cache lookup and the cache insert and, while one is, no other
\* call can enter prep, whatever its SQL text; a call that left prep, on the error
\* return as on the others, does not hold the mutex; and no call holds it while its
\* statement is queried or its rows are produced.
C16_MutexGuardsPrep ==
    /\ \A c \in Calls : mutex = c <=> InPrep(c)
    /\ \A c1, c2 \in Calls : (InPrep(c1) /\ InPrep(c2)) => c1 = c2
    /\ \A c1, c2 \in Calls : (InPrep(c1) /\ c2 # c1) => ~ ENABLED PrepLock(c2)
    /\ \A c \in Calls : pc[c] = "returned" => mutex # c
    /\ \A c \in Calls : (pc[c] \in { "query", "columns", "spawned" } \/ wpc[c] # "none") => mutex # c
    /\ (\A c \in Calls : ~ InPrep(c)) => mutex = 0

\* C16 witness: one call is preparing its text while a call with another text waits
\* for the mutex.
C16_Witness ==
    \E c1, c2 \in Calls :
        /\ pc[c1] = "prepare" /\ mutex = c1
        /\ pc[c2] = "lock" /\ query[c2] # query[c1]

\* C16 second case, kept as a reachable state of its own: a call returned the
\* prepare error and the mutex is free again for the other call, which took it.
C16_ErrorPathReleased ==
    \E c1, c2 \in Calls :
        /\ pc[c1] = "returned" /\ fault[c1] = "prepare"
        /\ mutex = c2

\* ------------------------------------------------------------ C17

\* C17: the deadline of a producer is armed by the one step that starts the worker
\* and from then on only goes from armed to fired, a completed send leaving it as it
\* is; production ends from a pending send only when the deadline has fired; and
\* with the deadline fired a pending send can always take the timeout branch, with
\* the offered row and the rows after it undelivered, whatever the consumer has
\* received before.
C17_DeadlineArmedOnce ==
    /\ [] (\A c \in Calls :
             /\ to[c] = "unset" <=> wpc[c] \in { "none", "start" }
             /\ timedOut[c] => to[c] = "fired"
             /\ wpc[c] = "send" => (ENABLED WTimeout(c) <=> to[c] = "fired"))
    /\ [][\A c \in Calls :
             /\ to'[c] # to[c] =>
                    \/ to[c] = "unset" /\ wpc[c] = "start" /\ to'[c] = "armed"
                    \/ to[c] = "armed" /\ to'[c] = "fired"
             /\ (wpc[c] = "send" /\ wpc'[c] \notin { "send", "next" }) =>
                    to[c] = "fired" /\ timedOut'[c]
             /\ (wpc[c] = "send" /\ wpc'[c] = "next") =>
                    Len(recvd'[c]) = Len(recvd[c]) + 1
          ]_vars

\* C17 witness: the consumer received every row it was offered, two of them, and
\* the send of the third ended production by the timeout, leaving that row
\* undelivered.
C17_Witness ==
    \E c \in Calls :
        /\ timedOut[c] /\ HeldChan(c) = << c >>
        /\ rows[c].n = 3 /\ rows[c].pos = 3
        /\ Len(recvd[c]) = 2

\* ------------------------------------------------------------ C20

\* C20: a step in which db.Prepare fails leaves the whole cache as it was; a step in
\* which it succeeds for a text gives that text, which had no entry, its entry and
\* leaves every other entry as it was; no other step changes the cache. So a text
\* has no entry as long as no Prepare of it succeeded, and a call that takes the
\* mutex for a text without an entry goes on to db.Prepare, which it can then
\* invoke, a failed Prepare of that text before it or not.
C20_FailedPrepareNotCached ==
    /\ [][IF Len(prepLog') = Len(prepLog) + 1
          THEN LET e == prepLog'[Len(prepLog')] IN
               IF e.ok
               THEN /\ stmt[e.q] = 0 /\ stmt'[e.q] = Len(prepLog')
                    /\ \A q \in Texts \ { e.q } : stmt'[q] = stmt[q]
               ELSE stmt' = stmt
          ELSE prepLog' = prepLog /\ stmt' = stmt
         ]_vars
    /\ [][\A c \in Calls :
             (pc[c] = "lock" /\ pc'[c] # "lock") =>
                 (pc'[c] = "prepare" <=> stmt[query[c]] = 0)
         ]_vars
    /\ [] (\A q \in Texts : OkPrepares(q) = { } => stmt[q] = 0)
    /\ [] (\A c \in Calls : pc[c] = "prepare" => ENABLED PrepPrepare(c))

\* C20 witness: the Prepare of a text failed, the next call with the same text
\* invoked Prepare again and this time it succeeded and was cached.
C20_Witness ==
    \E q \in Texts :
        /\ Len(prepLog) = 2
        /\ prepLog[1] = [q |-> q, ok |-> FALSE]
        /\ prepLog[2] = [q |-> q, ok |-> TRUE]
        /\ stmt[q] = 2
        /\ \A p \in Texts \ { q } : stmt[p] = 0

\* C20, the other texts: a text was cached, then the Prepare of another text
\* failed, and the first entry is still the only one.
C20_OtherEntryKept ==
    \E q, p \in Texts :
        /\ q # p
        /\ prepLog = << [q |-> p, ok |-> TRUE], [q |-> q, ok |-> FALSE] >>
        /\ stmt[p] = 1 /\ stmt[q] = 0

\* ------------------------------------------------------------ C14

\* The inner channels made so far that are not closed.
OpenInners == { i \in 1..Len(innerCloses) : innerCloses[i] = 0 }

\* C14: in every execution of Group, the worker offers a row on an inner channel
\* only after the consumer received that channel's pair on outer, and a pair is new
\* to the consumer with no row of its inner received yet; while a pair is offered,
\* and at any other time, every inner made before the current one is closed, so at
\* most one inner is open; and outer is closed only with every inner closed.
C14_GroupOrdering ==
    /\ [] /\ (gpc = "inner" /\ inner # 0) =>
                 (Len(groups) > 0 /\ groups[Len(groups)].ch = inner)
          /\ gpc = "outer" => (inner = Len(innerCloses) /\ Len(groups) = inner - 1)
          /\ gpc # "outer" => Len(groups) = Len(innerCloses)
          /\ \A i \in 1..Len(groups) : groups[i].ch = i
          /\ OpenInners \subseteq { inner }
          /\ Cardinality(OpenInners) <= 1
          /\ outerCloses > 0 => (OpenInners = { } /\ gpc = "done")
    /\ [][/\ Len(groups') >= Len(groups)
          /\ \A i \in 1..Len(groups') :
                 IF i > Len(groups)
                 THEN groups'[i].Inner = << >> /\ gpc = "outer"
                 ELSE groups'[i].Inner # groups[i].Inner =>
                          (gpc = "inner" /\ i = inner /\ innerCloses[i] = 0)
         ]_vars

\* C14 witness: two groups with a row each were received to the close of outer;
\* both inner channels are closed.
C14_Witness ==
    /\ cdone /\ Len(groups) = 2
    /\ Len(groups[1].Inner) = 1 /\ Len(groups[2].Inner) = 1
    /\ innerCloses = << 1, 1 >> /\ outerCloses = 1

\* ------------------------------------------------------------ C18

\* The worker is sending a row on an inner channel while the consumer is receiving
\* on outer.
CrossBlocked == gpc = "inner" /\ inner # 0 /\ cur = 0

\* C18 as stated: progress needs every inner drained to its close before the next
\* outer receive, so a consumer that once left an inner still open gets nothing
\* more from outer, neither a pair nor the close. Refuted: a consumer that left an
\* open inner after the last row of its group gets the next pair, or the close.
C18_LeavingOpenInnerBlocks ==
    [][skipped => (groups' = groups /\ cdone' = cdone)]_vars

\* C18 amended: a consumer that goes back to outer from an open inner of which it
\* received no row leaves the worker sending the group's first row on that inner;
\* with the worker sending on an inner and the consumer receiving on outer no step
\* of either is possible and that stays so for ever; and a row leaves the worker
\* only to a consumer receiving on the row's inner, so every row of an inner has to
\* be received before the next outer receive, while its close need not be awaited.
C18_SkipDeadlocks ==
    /\ [] (CrossBlocked =>
              /\ ~ ENABLED GRecv /\ ~ ENABLED GSendOuter /\ ~ ENABLED GSendInner
              /\ ~ ENABLED GFinish
              /\ ~ ENABLED CInnerClosed /\ ~ ENABLED CSkip /\ ~ ENABLED COuterClosed
              /\ ~ cdone /\ outerCloses = 0 /\ innerCloses[inner] = 0)
    /\ [][CrossBlocked => (CrossBlocked' /\ groups' = groups /\ vr' = vr)]_vars
    /\ [][(gpc = "inner" /\ gpc' # "inner") => (cur = inner /\ cur' = inner)]_vars
    /\ [][(cur # 0 /\ cur' = 0 /\ innerCloses[cur] = 0 /\ groups[cur].Inner = << >>) =>
              (CrossBlocked' /\ inner' = cur /\ Len(groups') = cur)]_vars

\* C18 witness: the consumer took the first group, received none of its rows and
\* asked outer for the next group; the worker holds the first row and nothing can
\* move any more, with rows of the input still unread.
C18_Witness ==
    /\ skipped /\ CrossBlocked
    /\ Len(groups) = 1 /\ groups[1].Inner = << >>
    /\ all # << >> /\ ~ ENABLED GroupNext

\* ------------------------------------------------------------ C12

\* The rows a consumer of Group has received so far, in the order it received them:
\* the rows of each inner sequence, each put back after the key of its pair.
RECURSIVE FlatRows(_)
FlatRows(gs) ==
    IF gs = << >> THEN << >>
    ELSE [j \in 1..Len(Head(gs).Inner) |-> Head(gs).Group \o Head(gs).Inner[j]]
             \o FlatRows(Tail(gs))

\* The rows of each inner sequence as they were sent, without the key.
RECURSIVE FlatInner(_)
FlatInner(gs) == IF gs = << >> THEN << >> ELSE Head(gs).Inner \o FlatInner(Tail(gs))

\* s is the sequence of the first Len(s) tuples of a cursor of n rows.
CursorPrefix(s, n) == Len(s) <= n /\ s = Delivered(Len(s))

\* C12: in every state of a pipeline of one call, what the consumer has received so
\* far is the first so many rows of the cursor, in cursor order: the tuples
\* themselves when it ranges over the channel, the keys with the rows of the inner
\* sequences behind Group (the inner rows being those tuples without their key
\* columns), the maps of those tuples behind Named; and so is what the grouping
\* worker or the relay has taken from the channel.
C12_ReceivedIsCursorPrefix ==
    \A c \in FairCalls :
        /\ CursorPrefix(recvd[c], rows[c].n)
        /\ CursorPrefix(ginput, rows[c].n)
        /\ CursorPrefix(FlatRows(groups), rows[c].n)
        /\ Len(FlatRows(groups)) <= Len(ginput)
        /\ FlatInner(groups) =
               [k \in 1..Len(FlatInner(groups)) |->
                   SubSeq(Delivered(k)[k], Min(nfields, Len(ColNames)) + 1, Len(ColNames))]
        /\ CursorPrefix(ninput, rows[c].n)
        /\ Len(nrecvd) <= Len(ninput)
        /\ nrecvd = [k \in 1..Len(nrecvd) |-> NamedMap(ColNames, Delivered(k)[k])]

\* C12 witness: behind Group with one key column, the consumer received the two
\* rows of the first group of a cursor of three rows, and production then ended by
\* the timeout.
C12_Witness ==
    \E c \in FairCalls :
        /\ rows[c].n = 3 /\ timedOut[c] /\ wpc[c] = "done"
        /\ nfields = 1 /\ Len(groups) = 1 /\ Len(groups[1].Inner) = 2

\* C12, the other ends: behind Named two maps were received and the scan of the
\* third row failed.
C12_NamedScanError ==
    \E c \in FairCalls : rows[c].n = 3 /\ scanErr[c] = 3 /\ Len(nrecvd) = 2 /\ nSawClose

\* ------------------------------------------------------------ C19

\* C19: in every state of a pipeline, no channel has been closed twice, a worker
\* that can still send has not closed the channel it sends on, and the inner
\* channel a row is offered on is open: the producer, the relay and the grouping
\* worker neither send on a closed channel nor close one again, a panic in Go.
C19_NoSendOnClosedNoDoubleClose ==
    /\ \A c \in Calls :
           /\ chClosed[c] <= 1
           /\ wpc[c] \in { "start", "next", "send", "close", "exit" } => chClosed[c] = 0
           /\ rows[c].closes <= 1
    /\ outerCloses <= 1
    /\ gpc \in { "recv", "outer", "inner" } => outerCloses = 0
    /\ \A i \in 1..Len(innerCloses) : innerCloses[i] <= 1
    /\ (gpc \in { "outer", "inner" } /\ inner # 0) => innerCloses[inner] = 0
    /\ nCloses <= 1
    /\ npc \in { "recv", "send" } => nCloses = 0

\* C19 witness: production ended by the timeout behind Group, which had made two
\* inner channels; everything was closed, once.
C19_Witness ==
    \E c \in FairCalls :
        /\ timedOut[c] /\ chClosed[c] = 1
        /\ gpc = "done" /\ innerCloses = << 1, 1 >> /\ outerCloses = 1

\* C19, the scan-error exit: the relay closed its channel once after the producer
\* closed its own on a failed scan.
C19_ScanErrorExit ==
    \E c \in FairCalls : scanErr[c] > 0 /\ chClosed[c] = 1 /\ npc = "done" /\ nCloses = 1

\* C19, the empty input: Group got no row, made no inner channel and closed outer.
C19_EmptyInput ==
    \E c \in FairCalls :
        /\ rows[c].n = 0 /\ chClosed[c] = 1
        /\ gpc = "done" /\ innerCloses = << >> /\ outerCloses = 1 /\ cdone

\* ------------------------------------------------------------ C15

\* C15: the grouping worker and the relay leave a pending send only by the
\* consumer's receive of what they offer, on the channel they offer it on, and have
\* not closed their output while they are at a send: nothing else ends the wait, so
\* with a consumer that stops receiving they stay at that send for ever. The
\* producer that feeds them still comes to its end and closes its channel, each time
\* it has started.
C15_StagesHaveNoDeadline ==
    /\ [] /\ gpc \in { "outer", "inner" } => outerCloses = 0
          /\ (gpc = "inner" /\ inner # 0) => innerCloses[inner] = 0
          /\ npc = "send" => nCloses = 0
    /\ [][/\ (gpc = "outer" /\ gpc' # "outer") =>
                 (cur = 0 /\ ~ cdone /\ Len(groups') = Len(groups) + 1)
          /\ (gpc = "inner" /\ gpc' # "inner") =>
                 /\ cur = inner /\ inner # 0
                 /\ Len(groups'[Len(groups)].Inner) = Len(groups[Len(groups)].Inner) + 1
          /\ (npc = "send" /\ npc' # "send") => Len(nrecvd') = Len(nrecvd) + 1
         ]_vars
    /\ \A c \in FairCalls : (wpc[c] # "none") ~> (wpc[c] = "done" /\ chClosed[c] = 1)

\* C15 witness: the consumer of Group never took the first pair; the producer
\* offered the second row, ran into its deadline and closed its channel, with the
\* worker still at its send on outer, its output open.
C15_Witness ==
    \E c \in FairCalls :
        /\ timedOut[c] /\ wpc[c] = "done" /\ chClosed[c] = 1
        /\ rows[c].pos < rows[c].n
        /\ gpc = "outer" /\ groups = << >> /\ outerCloses = 0
        /\ ~ ENABLED PGFinish(c)

\* C15, the relay: the consumer of Named stopped after one map; the relay holds
\* the second, the producer timed out on the third row and is gone.
C15_RelayBlocked ==
    \E c \in FairCalls :
        /\ timedOut[c] /\ wpc[c] = "done" /\ chClosed[c] = 1
        /\ npc = "send" /\ Len(nrecvd) = 1 /\ Len(ninput) = 2 /\ nCloses = 0

====
